---- MODULE Spec2Model ----
(***************************************************************************)
(* A model of scripts/build-and-publish.py: the release pipeline of        *)
(* FrontendRAFT (main and its thirteen steps), the heuristic text checks,  *)
(* the source inventory check and the CDN bundle assembly.                 *)
(*                                                                         *)
(* Strings the code searches with `in` are modelled as sequences of units  *)
(* (short pieces of text); `x in content` is contiguous-subsequence        *)
(* containment, content.lower() maps every unit to its lower-case form.    *)
(* A file's text is the set of its lines: none of the searched patterns    *)
(* holds a line break, so the order and the repetition of lines do not     *)
(* change any `in` test.                                                   *)
(***************************************************************************)
EXTENDS Integers, Sequences, FiniteSets, TLC

VARIABLES
    exists,       \* the paths for which os.path.exists is true
    unreadable,   \* existing paths whose open()/read() raises OSError
    text,         \* text of the four checked artifacts: path -> set of lines
    dist,         \* the files present under dist/
    token,        \* GITHUB_TOKEN as read from the environment at import
    state,        \* NotStarted, Running, Completed, Aborted
    i,            \* index in steps of the next step of main's loop
    results,      \* main's results list: <<step_name, result>> pairs
    invoked,      \* how many times each step function was called
    summary,      \* what the Build Summary section printed, or NoSummary
    exitCode,     \* the argument of sys.exit, or NoExit
    written,      \* the dist/ files written by this process
    bundle,       \* create_cdn_bundle's locals when it last returned
    report,       \* the log_test lines of the last check that ran
    ret,          \* the last call of a step function and how it ended
    size          \* for the files under src/ and dist/: path -> the file's
                  \* length in bytes (os.path.getsize) and how many of its
                  \* line ends are CR LF pairs

vars == <<exists, unreadable, text, dist, token, state, i, results, invoked,
          summary, exitCode, written, bundle, report, ret, size>>

-----------------------------------------------------------------------------
(* Bounds of the model *)

\* the largest number of manifest paths absent from a tree of the unit harness
MaxMissing == 2

\* the largest number of differences between a pipeline run's tree and the
\* reference tree (a path absent, an extra file, an unreadable file, a line
\* of an artifact that bears on a check's verdict added or removed, a file
\* left in dist/ by an earlier build, a file of another size)
MaxDeviations == 2

-----------------------------------------------------------------------------
(* Strings as sequences of units *)

\* str.lower() on one unit
LowerUnit(u) ==
    CASE u = "SCRIPT" -> "script"
      [] u = "CORS" -> "cors"
      [] u = "Origin" -> "origin"
      [] u = "Wildcard" -> "wildcard"
      [] u = "Route" -> "route"
      [] u = "Middleware" -> "middleware"
      [] u = "Not Found" -> "not found"
      [] u = "SECRET" -> "secret"
      [] u = "GET" -> "get"
      [] u = "POST" -> "post"
      [] u = "PUT" -> "put"
      [] u = "DELETE" -> "delete"
      [] u = "PATCH" -> "patch"
      [] u = "verifyJWT" -> "verifyjwt"
      [] u = "Date.now()" -> "date.now()"
      [] OTHER -> u

\* str.lower() on a line
LowerLine(l) == [k \in 1..Len(l) |-> LowerUnit(l[k])]

\* content.lower()
Lower(content) == {LowerLine(l) : l \in content}

\* pat in s, for strings s without a line break (a line, a path)
In(pat, s) ==
    \E k \in 0..(Len(s) - Len(pat)) :
        \A j \in 1..Len(pat) : s[k + j] = pat[j]

\* pat in content
Contains(content, pat) == \E l \in content : In(pat, l)

-----------------------------------------------------------------------------
(* Configuration and paths *)

NoToken == "None"

EXCLUDED_FROM_CDN ==
    << <<"src/", "plugins/", "react", ".js">>,
       <<"src/", "plugins/", "vue", ".js">> >>

required_files ==
    << <<"src/", "index", ".js">>,
       <<"src/", "core/", "FrontendRAFT", ".js">>,
       <<"src/", "core/", "CacheLayer", ".js">>,
       <<"src/", "core/", "StreamManager", ".js">>,
       <<"src/", "core/", "BatchManager", ".js">>,
       <<"src/", "core/", "OptimisticEngine", ".js">>,
       <<"src/", "core/", "QueryEngine", ".js">>,
       <<"src/", "core/", "AuthLayer", ".js">>,
       <<"src/", "core/", "Router", ".js">>,
       <<"src/", "core/", "StorageLayer", ".js">>,
       <<"src/", "core/", "ComputeLayer", ".js">>,
       <<"src/", "core/", "P2PLayer", ".js">>,
       <<"src/", "core/", "CDNClient", ".js">>,
       <<"src/", "plugins/", "react", ".js">>,
       <<"src/", "plugins/", "vue", ".js">>,
       <<"src/", "utils/", "jwt", ".js">>,
       <<"src/", "utils/", "crypto", ".js">>,
       <<"src/", "utils/", "validation", ".js">> >>

validation_file == <<"src/", "utils/", "validation", ".js">>
query_engine_file == <<"src/", "core/", "QueryEngine", ".js">>
jwt_file == <<"src/", "utils/", "jwt", ".js">>
router_file == <<"src/", "core/", "Router", ".js">>

workflow_file == <<".github/", "workflows/", "cdn-update", ".yml">>

dist_dir == <<"dist/">>

Range(s) == {s[k] : k \in 1..Len(s)}

Manifest == Range(required_files)

Artifacts == {validation_file, query_engine_file, jwt_file, router_file}

\* Files a source tree may hold beside the manifest: a file that is no
\* script, a script outside the manifest, and a vendored copy of a plugin
\* whose path holds an exclusion rule without being equal to it.
ExtraFiles ==
    { <<"src/", "README", ".md">>,
      <<"src/", "extra", ".js">>,
      <<"src/", "vendor/", "src/", "plugins/", "react", ".js">> }

\* Files whose read may fail in the modelled trees
Fragile == {validation_file, jwt_file, <<"src/", "index", ".js">>}

-----------------------------------------------------------------------------
(* What a step function does when called: it returns a value or raises,   *)
(* and it logs.  log holds the log_test lines (or, for the inventory      *)
(* check, the missing paths it lists).                                    *)

Returned(v, lg) == [raised |-> FALSE, value |-> v, log |-> lg]
Raised == [raised |-> TRUE, value |-> FALSE, log |-> <<>>]

\* validate_source_files leaving its loop at the first missing file
validate_source_files_StopsAtFirst(ex) ==
    LET missing == SelectSeq(required_files, LAMBDA file : file \notin ex)
    IN  IF missing # <<>>
        THEN Returned(FALSE, <<Head(missing)>>)
        ELSE Returned(TRUE, <<>>)

\* STEP 2: validate_source_files
validate_source_files(ex) ==
    LET missing == SelectSeq(required_files, LAMBDA file : file \notin ex)
    IN  IF missing # <<>>
        THEN Returned(FALSE, missing)
        ELSE Returned(TRUE, <<>>)

\* test_xss_protection returning the conjunction of all it logs
test_xss_protection_AllSubChecks(ex, unread, txt) ==
    IF validation_file \notin ex THEN Returned(FALSE, <<>>)
    ELSE IF validation_file \in unread THEN Raised
    ELSE
    LET content == txt[validation_file]
        has_sanitize == Contains(content, <<"function sanitize">>)
        has_html_escape ==
            \/ Contains(content, <<"&lt;">>)
            \/ Contains(content, <<"replace(/</g">>)
        has_script_block == Contains(Lower(content), <<"script">>)
    IN  Returned(has_sanitize /\ has_html_escape /\ has_script_block,
                 << <<"Sanitize function exists", has_sanitize>>,
                    <<"HTML escape implemented", has_html_escape>>,
                    <<"Script tag protection", has_script_block>> >>)

\* STEP 3: test_xss_protection
test_xss_protection(ex, unread, txt) ==
    IF validation_file \notin ex THEN Returned(FALSE, <<>>)
    ELSE IF validation_file \in unread THEN Raised
    ELSE
    LET content == txt[validation_file]
        has_sanitize ==
            \/ Contains(content, <<"function sanitize">>)
            \/ Contains(content, <<"export ", "function sanitize">>)
        has_html_escape ==
            \/ Contains(content, <<"&lt;">>)
            \/ Contains(content, <<"replace(/</g">>)
        has_script_block ==
            \/ Contains(content, <<"&lt;", "script">>)
            \/ Contains(Lower(content), <<"script">>)
    IN  Returned(has_sanitize /\ has_html_escape,
                 << <<"Sanitize function exists", has_sanitize>>,
                    <<"HTML escape implemented", has_html_escape>>,
                    <<"Script tag protection", has_script_block>> >>)

\* test_sql_injection_protection returning the filter test alone
test_sql_injection_protection_EvalIgnored(ex, unread, txt) ==
    IF query_engine_file \notin ex THEN Returned(FALSE, <<>>)
    ELSE IF query_engine_file \in unread THEN Raised
    ELSE
    LET content == txt[query_engine_file]
        has_where_filter == Contains(content, <<"_filter">>)
        has_operator_check ==
            \/ Contains(content, <<"$eq">>)
            \/ Contains(content, <<"operator">>)
        has_eval == Contains(content, <<"eval", "(">>)
    IN  Returned(has_where_filter,
                 << <<"Safe WHERE clause filtering", has_where_filter>>,
                    <<"Query operator validation", has_operator_check>>,
                    <<"No eval() usage", ~has_eval>> >>)

\* STEP 4: test_sql_injection_protection
test_sql_injection_protection(ex, unread, txt) ==
    IF query_engine_file \notin ex THEN Returned(FALSE, <<>>)
    ELSE IF query_engine_file \in unread THEN Raised
    ELSE
    LET content == txt[query_engine_file]
        has_where_filter == Contains(content, <<"_filter">>)
        has_operator_check ==
            \/ Contains(content, <<"$eq">>)
            \/ Contains(content, <<"operator">>)
        has_eval == Contains(content, <<"eval", "(">>)
    IN  Returned(has_where_filter /\ ~has_eval,
                 << <<"Safe WHERE clause filtering", has_where_filter>>,
                    <<"Query operator validation", has_operator_check>>,
                    <<"No eval() usage", ~has_eval>> >>)

\* re.findall(r'secret\s*=\s*["\'][^"\']+["\']', line, re.IGNORECASE) is
\* not empty: "secret" in any case, blanks, "=", blanks, a quoted literal
\* (a quoted literal is one unit, "'k3y'")
Blanks(l, from, to) == \A k \in from..to : l[k] = " "

SecretLiteral(l) ==
    \E a \in 1..Len(l), b \in 1..Len(l), c \in 1..Len(l) :
        /\ a < b /\ b < c
        /\ LowerUnit(l[a]) = "secret"
        /\ Blanks(l, a + 1, b - 1)
        /\ l[b] = "="
        /\ Blanks(l, b + 1, c - 1)
        /\ l[c] = "'k3y'"

\* test_jwt_security without the expiration check in what it returns
test_jwt_security_NoExpiry(ex, unread, txt) ==
    IF jwt_file \notin ex THEN Returned(FALSE, <<>>)
    ELSE IF jwt_file \in unread THEN Raised
    ELSE
    LET content == txt[jwt_file]
        has_verify == Contains(content, <<"verifyJWT">>)
        has_signature_check ==
            Contains(content, <<"signature">>) /\ Contains(content, <<"!", "=">>)
    IN  Returned(has_verify /\ has_signature_check, <<>>)

\* STEP 5: test_jwt_security
test_jwt_security(ex, unread, txt) ==
    IF jwt_file \notin ex THEN Returned(FALSE, <<>>)
    ELSE IF jwt_file \in unread THEN Raised
    ELSE
    LET content == txt[jwt_file]
        has_verify == Contains(content, <<"verifyJWT">>)
        has_signature_check ==
            Contains(content, <<"signature">>) /\ Contains(content, <<"!", "=">>)
        has_exp_check ==
            Contains(content, <<"exp">>) /\ Contains(content, <<"Date.now()">>)
        potential_hardcoded == {l \in content : SecretLiteral(l)}
    IN  Returned(has_verify /\ has_signature_check /\ has_exp_check,
                 << <<"JWT verification function", has_verify>>,
                    <<"Signature validation", has_signature_check>>,
                    <<"Token expiration check", has_exp_check>>,
                    <<"No hardcoded secrets", potential_hardcoded = {}>> >>)

\* STEP 6: test_cors_configuration
test_cors_configuration(ex, unread, txt) ==
    IF router_file \notin ex THEN Returned(FALSE, <<>>)
    ELSE IF router_file \in unread THEN Raised
    ELSE
    LET content == txt[router_file]
        has_cors ==
            \/ Contains(Lower(content), <<"cors">>)
            \/ Contains(Lower(content), <<"origin">>)
        has_wildcard_warning ==
            \/ ~Contains(content, <<"*">>)
            \/ Contains(Lower(content), <<"wildcard">>)
    IN  Returned(has_cors,
                 << <<"CORS handling present", has_cors>>,
                    <<"No unsafe wildcard CORS", has_wildcard_warning>> >>)

http_methods == <<"GET", "POST", "PUT", "DELETE", "PATCH">>

\* STEP 7: test_routes (it opens Router.js without asking whether it exists)
test_routes(ex, unread, txt) ==
    IF router_file \notin ex \/ router_file \in unread THEN Raised
    ELSE
    LET content == txt[router_file]
        has_define ==
            Contains(content, <<"define">>) /\ Contains(Lower(content), <<"route">>)
        has_method(method) == Contains(content, <<method>>)
        has_params ==
            Contains(content, <<":">>) /\ Contains(content, <<"params">>)
        has_middleware == Contains(Lower(content), <<"middleware">>)
        has_try_catch ==
            Contains(content, <<"try">>) /\ Contains(content, <<"catch">>)
        has_404 ==
            \/ Contains(content, <<"404">>)
            \/ Contains(Lower(content), <<"not found">>)
    IN  Returned(has_define /\ has_try_catch /\ has_404,
                 << <<"Route.define() method", has_define>> >>
                 \o [k \in 1..Len(http_methods) |->
                        <<http_methods[k], has_method(http_methods[k])>>]
                 \o << <<"Path parameters (/users/:id)", has_params>>,
                       <<"Middleware support", has_middleware>>,
                       <<"Error handling (try/catch)", has_try_catch>>,
                       <<"404 Not Found handling", has_404>> >>)

-----------------------------------------------------------------------------
(* STEP 8: the CDN bundle *)

\* list(Path('src').rglob('*.js')) lists the scripts under src/ in the order
\* the file system yields them, which the code does not fix.  The model
\* takes the manifest's order followed by the extra files, or its reverse.
Reverse(s) == [k \in 1..Len(s) |-> s[Len(s) + 1 - k]]

ScanOrder ==
    required_files
    \o << <<"src/", "README", ".md">>,
          <<"src/", "extra", ".js">>,
          <<"src/", "vendor/", "src/", "plugins/", "react", ".js">> >>

Scan(order) == IF order = "reverse" THEN Reverse(ScanOrder) ELSE ScanOrder

rglob_js(ex, order) ==
    SelectSeq(Scan(order),
              LAMBDA f : f \in ex /\ f[1] = "src/" /\ f[Len(f)] = ".js")

\* IsExcluded by equality with a rule instead of containment
IsExcluded_ExactMatch(src_path) ==
    \E k \in 1..Len(EXCLUDED_FROM_CDN) : EXCLUDED_FROM_CDN[k] = src_path

\* any(excluded in src_path for excluded in EXCLUDED_FROM_CDN)
IsExcluded(src_path) ==
    \E k \in 1..Len(EXCLUDED_FROM_CDN) : In(EXCLUDED_FROM_CDN[k], src_path)

\* Path('dist') / src_file.relative_to('src')
DistPath(src_file) == dist_dir \o Tail(src_file)

\* open(src_file, 'r').read() then open(dist_path, 'w').write(content): the
\* read is in text mode with universal newlines, which turns every CR LF
\* pair into one LF, and the write puts os.linesep (LF on the POSIX hosts
\* the script's shebang and commands are for) at every line end, so the
\* copy is shorter than the source by one byte for each CR LF pair
TextCopy(sz) == [bytes |-> sz.bytes - sz.crlf, crlf |-> 0]

\* the for loop of create_cdn_bundle over the files left to visit; copies
\* holds what it wrote at each path of cdn_files
RECURSIVE CopyLoop(_, _, _, _)
CopyLoop(src_files, unread, sz, acc) ==
    IF src_files = <<>> THEN acc
    ELSE LET src_file == Head(src_files)
         IN  IF IsExcluded(src_file)
             THEN CopyLoop(Tail(src_files), unread, sz,
                           [acc EXCEPT !.excluded_count = @ + 1,
                                       !.log = Append(@, src_file)])
             ELSE IF src_file \in unread
             THEN [acc EXCEPT !.raised = TRUE]
             ELSE CopyLoop(Tail(src_files), unread, sz,
                           [acc EXCEPT !.cdn_files = Append(@, DistPath(src_file)),
                                       !.copies = Append(@, TextCopy(sz[src_file]))])

\* The sizes of the files once the loop has written copies[k] at
\* cdn_files[k]; no two source files have the same dist_path
AfterCopies(sz, cdn_files, copies) ==
    [p \in DOMAIN sz \cup Range(cdn_files) |->
        IF \E k \in 1..Len(cdn_files) : cdn_files[k] = p
        THEN copies[CHOOSE k \in 1..Len(cdn_files) : cdn_files[k] = p]
        ELSE sz[p]]

\* sum(os.path.getsize(f) for f in cdn_files)
RECURSIVE SumSizes(_, _)
SumSizes(cdn_files, sz) ==
    IF cdn_files = <<>> THEN 0
    ELSE sz[Head(cdn_files)].bytes + SumSizes(Tail(cdn_files), sz)

\* ExceedsTarget that also takes a bundle of exactly the target for too large
ExceedsTarget_AtLeast(total_size) == total_size >= 100 * 1024

\* if total_size > 100 * 1024
ExceedsTarget(total_size) == total_size > 100 * 1024

\* create_cdn_bundle: warned is whether it logged "Bundle exceeds 100KB
\* target"; total_size is computed only when the loop has ended
create_cdn_bundle(ex, unread, sz, order) ==
    LET src_files == rglob_js(ex, order)
        done == CopyLoop(src_files, unread, sz,
                         [raised |-> FALSE, cdn_files |-> <<>>, copies |-> <<>>,
                          excluded_count |-> 0, log |-> <<>>])
        size_after == AfterCopies(sz, done.cdn_files, done.copies)
        total_size == IF done.raised THEN 0
                      ELSE SumSizes(done.cdn_files, size_after)
    IN  [raised |-> done.raised, value |-> ~done.raised, log |-> done.log,
         src_files |-> src_files, cdn_files |-> done.cdn_files,
         excluded_count |-> done.excluded_count, size |-> size_after,
         total_size |-> total_size,
         warned |-> ~done.raised /\ ExceedsTarget(total_size)]

-----------------------------------------------------------------------------
(* The publishing steps: what they return depends on what the commands    *)
(* they run (curl, git) and the file system answer.                       *)

\* validate_github_token without the test that the token is set
validate_github_token_NoPresenceTest(tok, curl) == Returned(curl = "login", <<>>)

\* STEP 1: validate_github_token; curl is the answer of api.github.com/user
validate_github_token(tok, curl) ==
    IF tok = NoToken THEN Returned(FALSE, <<>>)
    ELSE Returned(curl = "login", <<>>)

\* STEP 9: check_repo_exists
check_repo_exists(curl) == Returned(curl = "id", <<>>)

\* STEP 10: purge_old_cdn_versions
purge_old_cdn_versions == Returned(TRUE, <<>>)

\* STEP 11: setup_cdn_auto_update; io is the fate of the workflow file's write
setup_cdn_auto_update(io) == IF io = "OSError" THEN Raised ELSE Returned(TRUE, <<>>)

\* STEP 12: git_operations; CalledProcessError is caught, nothing else is
git_operations(git) ==
    IF git = "FileNotFoundError" THEN Raised
    ELSE Returned(git = "ok", <<>>)

\* STEP 13: verify_cdn_availability never fails the build
verify_cdn_availability(curl) == Returned(TRUE, <<>>)

-----------------------------------------------------------------------------
(* main's list of steps *)

\* steps with the repository check moved before the bundle creation
steps_RepositoryCheckEarly ==
    << "GitHub Token Validation",
       "Source File Validation",
       "XSS Protection Test",
       "SQL Injection Test",
       "JWT Security Test",
       "CORS Configuration Test",
       "Route Testing",
       "Repository Check",
       "CDN Bundle Creation",
       "Purge Old Versions",
       "CDN Auto-Update Setup",
       "Git Operations",
       "CDN Verification" >>

steps ==
    << "GitHub Token Validation",
       "Source File Validation",
       "XSS Protection Test",
       "SQL Injection Test",
       "JWT Security Test",
       "CORS Configuration Test",
       "Route Testing",
       "CDN Bundle Creation",
       "Repository Check",
       "Purge Old Versions",
       "CDN Auto-Update Setup",
       "Git Operations",
       "CDN Verification" >>

\* What the world outside the process may answer to a step
Answers(step_name) ==
    CASE step_name = "GitHub Token Validation" -> {"login", "message", "error"}
      [] step_name = "CDN Bundle Creation" -> {"forward", "reverse"}
      [] step_name = "Repository Check" -> {"id", "message", "error"}
      [] step_name = "CDN Auto-Update Setup" -> {"ok", "OSError"}
      [] step_name = "Git Operations" ->
            {"ok", "CalledProcessError", "FileNotFoundError"}
      [] step_name = "CDN Verification" -> {"200", "404", "timeout"}
      [] OTHER -> {"-"}

\* step_func(): the outcome of calling the step's function in the current
\* state, with the file system as the call leaves it
step_func(step_name, answer) ==
    LET same(r) == [raised |-> r.raised, value |-> r.value, log |-> r.log,
                    exists |-> exists, dist |-> dist, written |-> written,
                    bundle |-> bundle, size |-> size]
    IN  CASE step_name = "GitHub Token Validation" ->
                same(validate_github_token(token, answer))
          [] step_name = "Source File Validation" ->
                same(validate_source_files(exists))
          [] step_name = "XSS Protection Test" ->
                same(test_xss_protection(exists, unreadable, text))
          [] step_name = "SQL Injection Test" ->
                same(test_sql_injection_protection(exists, unreadable, text))
          [] step_name = "JWT Security Test" ->
                same(test_jwt_security(exists, unreadable, text))
          [] step_name = "CORS Configuration Test" ->
                same(test_cors_configuration(exists, unreadable, text))
          [] step_name = "Route Testing" ->
                same(test_routes(exists, unreadable, text))
          [] step_name = "CDN Bundle Creation" ->
                LET r == create_cdn_bundle(exists, unreadable, size, answer)
                    files == {dist_dir} \cup Range(r.cdn_files)
                IN  [raised |-> r.raised, value |-> r.value, log |-> r.log,
                     exists |-> exists,
                     dist |-> dist \cup files,
                     written |-> written \cup (files \ (dist \cap {dist_dir})),
                     bundle |-> IF r.raised THEN bundle
                                ELSE [src_files |-> r.src_files,
                                      cdn_files |-> r.cdn_files,
                                      excluded_count |-> r.excluded_count,
                                      excluded |-> r.log,
                                      total_size |-> r.total_size,
                                      warned |-> r.warned],
                     size |-> r.size]
          [] step_name = "Repository Check" ->
                same(check_repo_exists(answer))
          [] step_name = "Purge Old Versions" ->
                same(purge_old_cdn_versions)
          [] step_name = "CDN Auto-Update Setup" ->
                LET r == setup_cdn_auto_update(answer)
                IN  [same(r) EXCEPT !.exists =
                        IF r.raised THEN exists ELSE exists \cup {workflow_file}]
          [] step_name = "Git Operations" ->
                same(git_operations(answer))
          [] step_name = "CDN Verification" ->
                same(verify_cdn_availability(answer))

-----------------------------------------------------------------------------
(* The trees and texts the model starts from *)

\* The lines an artifact's text is made of
ValidationLines ==
    { <<"export ", "function sanitize">>,
      <<"function sanitize">>,
      <<"&lt;">>,
      <<"replace(/</g">>,
      <<"&lt;", "script">>,
      <<"SCRIPT">>,
      <<"export ", "function validate">> }

QueryLines ==
    { <<"this.", "_filter">>,
      <<"$eq">>,
      <<"operator">>,
      <<"eval", "(">>,
      <<"eval", "uate", "(">> }

JwtLines ==
    { <<"verifyJWT">>,
      <<"signature">>,
      <<"!", "=">>,
      <<"exp">>,
      <<"exp", "ort">>,
      <<"Date.now()">>,
      <<"SECRET", " ", "=", " ", "'k3y'">>,
      <<"secret", "=", "process.env">> }

CorsLines == { <<"CORS">>, <<"Origin">>, <<"*">>, <<"Wildcard">> }

RouteLines ==
    { <<"define">>, <<"Route">>,
      <<"GET">>, <<"POST">>, <<"PUT">>, <<"DELETE">>, <<"PATCH">>,
      <<":">>, <<"params">>, <<"Middleware">>,
      <<"try">>, <<"catch">>, <<"404">>, <<"Not Found">> }

Lines(file) ==
    CASE file = validation_file -> ValidationLines
      [] file = query_engine_file -> QueryLines
      [] file = jwt_file -> JwtLines
      [] file = router_file -> CorsLines \cup RouteLines

\* The lines that no test a check returns on reads: they bear on sub-checks
\* that are logged only.  Pipeline runs do not vary them; the unit harness
\* does.
LoggedOnlyLines ==
    { <<"SCRIPT">>, <<"export ", "function validate">>,
      <<"SECRET", " ", "=", " ", "'k3y'">>, <<"secret", "=", "process.env">>,
      <<"*">>, <<"Wildcard">>,
      <<"GET">>, <<"POST">>, <<"PUT">>, <<"DELETE">>, <<"PATCH">>,
      <<":">>, <<"params">>, <<"Middleware">> }

\* The reference tree: the manifest's files, with texts every check passes
RefText ==
    [file \in Artifacts |->
        CASE file = validation_file ->
                { <<"export ", "function sanitize">>, <<"replace(/</g">>,
                  <<"&lt;", "script">> }
          [] file = query_engine_file ->
                { <<"this.", "_filter">>, <<"$eq">>, <<"eval", "uate", "(">> }
          [] file = jwt_file ->
                { <<"verifyJWT">>, <<"signature">>, <<"!", "=">>, <<"exp">>,
                  <<"Date.now()">>, <<"secret", "=", "process.env">> }
          [] file = router_file ->
                { <<"CORS">>, <<"define">>, <<"Route">>, <<"GET">>, <<"POST">>,
                  <<"PUT">>, <<"DELETE">>, <<"PATCH">>, <<":">>, <<"params">>,
                  <<"Middleware">>, <<"try">>, <<"catch">>, <<"404">> }]

\* the subsets of S of at most n elements
RECURSIVE SubsetsUpTo(_, _)
SubsetsUpTo(S, n) ==
    IF n = 0 THEN {{}}
    ELSE LET smaller == SubsetsUpTo(S, n - 1)
         IN  smaller \cup {d \cup {x} : d \in smaller, x \in S}

SymDiff(A, B) == (A \ B) \cup (B \ A)

\* The files an earlier build may have left under dist/
StaleFiles == {dist_dir \o <<"index", ".js">>, dist_dir \o <<"old", ".js">>}

\* The sixteen scripts of the manifest that no rule excludes have, in the
\* reference tree, sizes that add up to the 100 * 1024 target exactly, and
\* line ends that are all LF
RefSize == [bytes |-> (100 * 1024) \div 16, crlf |-> 0]
StaleSize == [bytes |-> 2 * RefSize.bytes, crlf |-> 0]

\* A file one byte longer or shorter than in the reference tree, and a file
\* of the same text saved with two of its line ends as CR LF pairs
SizeAs(how) ==
    CASE how = "grown" -> [bytes |-> RefSize.bytes + 1, crlf |-> 0]
      [] how = "shrunk" -> [bytes |-> RefSize.bytes - 1, crlf |-> 0]
      [] how = "crlf" -> [bytes |-> RefSize.bytes + 2, crlf |-> 2]

Resized ==
    { <<"size", <<"src/", "index", ".js">>, <<"grown">>>>,
      <<"size", <<"src/", "core/", "CacheLayer", ".js">>, <<"shrunk">>>>,
      <<"size", <<"src/", "core/", "FrontendRAFT", ".js">>, <<"crlf">>>> }

\* What a tree may differ from the reference tree by
Deviations ==
    {<<"missing", p, <<>>>> : p \in Manifest}
    \cup {<<"extra", p, <<>>>> : p \in ExtraFiles}
    \cup {<<"unreadable", p, <<>>>> : p \in Fragile}
    \cup {<<"line", f[1], f[2]>> :
            f \in UNION {{<<file, l>> : l \in Lines(file) \ LoggedOnlyLines} :
                            file \in Artifacts}}
    \cup {<<"dist", p, <<>>>> : p \in StaleFiles}
    \cup Resized

Of(kind, D) == {d[2] : d \in {e \in D : e[1] = kind}}

\* os.path.getsize of the files of a tree: the files of `ex` with the sizes
\* of the reference tree but for the resized ones of D, and the files left
\* in dist/ by an earlier build
Sizes(ex, stale, D) ==
    [p \in ex \cup (stale \cap StaleFiles) |->
        IF p \in ex
        THEN IF \E d \in D : d[1] = "size" /\ d[2] = p
             THEN SizeAs((CHOOSE d \in D : d[1] = "size" /\ d[2] = p)[3][1])
             ELSE RefSize
        ELSE StaleSize]

NoSummary == [printed |-> FALSE]
NoExit == -1
NoBundle == [built |-> FALSE]
NoCall == [func |-> "main", pending |-> FALSE, raised |-> FALSE, value |-> FALSE]

\* The state of main before it runs, and of the harness when it calls nothing
InitRun ==
    /\ state = "NotStarted"
    /\ i = 1
    /\ results = <<>>
    /\ invoked = [k \in 1..Len(steps) |-> 0]
    /\ summary = NoSummary
    /\ exitCode = NoExit
    /\ written = {}
    /\ bundle = NoBundle
    /\ report = <<>>

\* A run of the script in a tree within MaxDeviations of the reference tree
Init ==
    /\ \E D \in SubsetsUpTo(Deviations, MaxDeviations) :
        /\ exists = (Manifest \ Of("missing", D)) \cup Of("extra", D)
        /\ unreadable = Of("unreadable", D) \ Of("missing", D)
        /\ text = [file \in Artifacts |->
                      SymDiff(RefText[file],
                              {d[3] : d \in {e \in D : e[1] = "line" /\ e[2] = file}})]
        /\ dist = IF Of("dist", D) = {} THEN {} ELSE {dist_dir} \cup Of("dist", D)
        /\ size = Sizes(exists, dist, D)
    /\ token \in {NoToken, "ghp_token"}
    /\ InitRun
    /\ ret = NoCall

-----------------------------------------------------------------------------
(* main *)

\* Truthy with an exception taken for a pass
Truthy_RaiseIsPass(r) == r.raised \/ r.value

\* `if not result` is false and no exception reached main's handler
Truthy(r) == ~r.raised /\ r.value

\* ExitStatus that reports success whatever main returned
ExitStatus_AlwaysZero(success) == 0

\* sys.exit(0 if success else 1)
ExitStatus(success) == IF success THEN 0 ELSE 1

\* main, up to the loop over steps
Start ==
    /\ state = "NotStarted"
    /\ state' = "Running"
    /\ results' = <<>>
    /\ UNCHANGED <<exists, unreadable, text, dist, token, i, invoked, summary,
                   exitCode, written, bundle, report, ret, size>>

\* One turn of main's loop: the call of the step, the append to results and,
\* when the step returned a falsy value or raised, main's return False and
\* the sys.exit(1) that follows it
RunStep ==
    /\ state = "Running"
    /\ i <= Len(steps)
    /\ \E answer \in Answers(steps[i]) :
        LET r == step_func(steps[i], answer)
        IN  /\ invoked' = [invoked EXCEPT ![i] = @ + 1]
            /\ results' = Append(results, <<steps[i], Truthy(r)>>)
            /\ exists' = r.exists
            /\ dist' = r.dist
            /\ written' = r.written
            /\ bundle' = r.bundle
            /\ report' = r.log
            /\ size' = r.size
            /\ IF Truthy(r)
               THEN /\ i' = i + 1
                    /\ UNCHANGED <<state, exitCode>>
               ELSE /\ state' = "Aborted"
                    /\ exitCode' = ExitStatus(FALSE)
                    /\ i' = i
            /\ ret' = [func |-> steps[i], pending |-> FALSE, raised |-> r.raised,
                       value |-> r.value]
    /\ UNCHANGED <<unreadable, text, token, summary>>

\* main after the loop: the Build Summary, the return and sys.exit
Summarize ==
    /\ state = "Running"
    /\ i > Len(steps)
    /\ LET passed == Cardinality({k \in 1..Len(results) : results[k][2]})
           total == Len(results)
       IN  /\ summary' = [printed |-> TRUE, passed |-> passed, total |-> total,
                          lines |-> results]
           /\ state' = IF passed = total THEN "Completed" ELSE "Aborted"
           /\ exitCode' = ExitStatus(passed = total)
    /\ UNCHANGED <<exists, unreadable, text, dist, token, i, results, invoked,
                   written, bundle, report, ret, size>>

Next == Start \/ RunStep \/ Summarize

Spec == Init /\ [][Next]_vars

-----------------------------------------------------------------------------
(* The unit harness: one direct call of one core step function on a tree. *)
(* The checks are called on every text made of their artifact's lines,    *)
(* the inventory check and the bundle assembly on trees that lack up to   *)
(* MaxMissing manifest paths.                                             *)

CoreSteps ==
    { "Source File Validation", "XSS Protection Test", "SQL Injection Test",
      "JWT Security Test", "CORS Configuration Test", "Route Testing",
      "CDN Bundle Creation" }

\* the artifact a check reads
ArtifactOf(step_name) ==
    CASE step_name = "XSS Protection Test" -> validation_file
      [] step_name = "SQL Injection Test" -> query_engine_file
      [] step_name = "JWT Security Test" -> jwt_file
      [] step_name = "CORS Configuration Test" -> router_file
      [] step_name = "Route Testing" -> router_file

\* the texts a check is called on: the lines it searches, in any combination
TextsFor(step_name) ==
    CASE step_name = "CORS Configuration Test" ->
            {t \cup {<<"define">>} : t \in SUBSET CorsLines}
      [] step_name = "Route Testing" ->
            {t \cup {<<"CORS">>} : t \in SUBSET RouteLines}
      [] OTHER -> SUBSET Lines(ArtifactOf(step_name))

Checks == CoreSteps \ {"Source File Validation", "CDN Bundle Creation"}

\* a check on every text of its artifact, and on an artifact that is absent
\* or cannot be read
InitTexts ==
    /\ ret.func \in Checks
    /\ \/ /\ exists = Manifest
          /\ unreadable = {}
          /\ \E t \in TextsFor(ret.func) :
                text = [RefText EXCEPT ![ArtifactOf(ret.func)] = t]
       \/ /\ exists = Manifest \ {ArtifactOf(ret.func)}
          /\ unreadable = {}
          /\ text = RefText
       \/ /\ exists = Manifest
          /\ unreadable = {ArtifactOf(ret.func)}
          /\ text = RefText
    /\ dist = {}

\* the inventory check on trees that lack up to MaxMissing manifest paths
InitInventory ==
    /\ ret.func = "Source File Validation"
    /\ \E missing \in SubsetsUpTo(Manifest, MaxMissing) :
       \E extra \in SUBSET ExtraFiles :
            exists = (Manifest \ missing) \cup extra
    /\ unreadable = {}
    /\ text = RefText
    /\ dist = {}

\* the bundle assembly on such trees, and on the trees that hold the whole
\* manifest with a file that cannot be read
InitBundle ==
    /\ ret.func = "CDN Bundle Creation"
    /\ \E missing \in SubsetsUpTo(Manifest, MaxMissing) :
       \E extra \in SUBSET ExtraFiles :
       \E unread \in SubsetsUpTo(Fragile, IF missing = {} THEN 1 ELSE 0) :
        /\ exists = (Manifest \ missing) \cup extra
        /\ unreadable = unread \ missing
    /\ text = RefText
    /\ dist = {}

InitUnit ==
    /\ \E step_name \in CoreSteps :
        ret = [func |-> step_name, pending |-> TRUE, raised |-> FALSE,
               value |-> FALSE]
    /\ InitTexts \/ InitInventory \/ InitBundle
    /\ size = Sizes(exists, {}, {})
    /\ token = NoToken
    /\ InitRun

\* The call of the function under test
Call ==
    /\ ret.pending
    /\ \E answer \in Answers(ret.func) :
        LET r == step_func(ret.func, answer)
        IN  /\ ret' = [func |-> ret.func, pending |-> FALSE, raised |-> r.raised,
                       value |-> r.value]
            /\ exists' = r.exists
            /\ dist' = r.dist
            /\ written' = r.written
            /\ bundle' = r.bundle
            /\ report' = r.log
            /\ size' = r.size
    /\ UNCHANGED <<unreadable, text, token, state, i, results, invoked, summary,
                   exitCode>>

NextUnit == Call

SpecUnit == InitUnit /\ [][NextUnit]_vars

-----------------------------------------------------------------------------
(* Properties of main *)

Terminal == state \in {"Completed", "Aborted"}

\* the step was called
Invoked(step_name) == \E k \in 1..Len(steps) : steps[k] = step_name /\ invoked[k] > 0

\* the step is recorded in results as passed
Passed(step_name) == \E k \in 1..Len(results) : results[k] = <<step_name, TRUE>>

AllPass == \A k \in 1..Len(results) : results[k][2]

\* C1: main runs the steps in the declared order and halts at the first step
\* that returns a falsy value or raises: results names a prefix of steps,
\* every entry but the last is a pass, the last entry is what the last call
\* came to (a raise is recorded as False), a step is called once if it is in
\* results and never otherwise, and a failure ends the run at once.
C1_HaltsAtFirstFailure ==
    /\ Len(results) <= Len(steps)
    /\ \A k \in 1..Len(results) : results[k][1] = steps[k]
    /\ \A k \in 1..(Len(results) - 1) : results[k][2]
    /\ \A k \in 1..Len(steps) : invoked[k] = IF k <= Len(results) THEN 1 ELSE 0
    /\ results # <<>> =>
        /\ ret.func = steps[Len(results)]
        /\ results[Len(results)][2] = (~ret.raised /\ ret.value)
        /\ ~results[Len(results)][2] => state = "Aborted"
    /\ state = "Aborted" => results # <<>> /\ ~results[Len(results)][2]

\* C1 witness: a step in the middle of the list raised; it is recorded as
\* failed after two passes and no later step was called
C1_Witness ==
    /\ state = "Aborted"
    /\ ret.raised
    /\ results = << <<steps[1], TRUE>>, <<steps[2], TRUE>>, <<steps[3], FALSE>> >>
    /\ \A k \in 4..Len(steps) : invoked[k] = 0

\* C2: the exit code is 0 exactly when the run is Completed, which needs all
\* 13 steps run and passed, and 1 exactly when it is Aborted; once the run is
\* Completed or Aborted nothing more happens.
C2_ExitCode ==
    /\ [](/\ exitCode \in {NoExit, 0, 1}
          /\ Len(steps) = 13
          /\ (exitCode = 0) <=> (state = "Completed")
          /\ (exitCode = 1) <=> (state = "Aborted")
          /\ (state = "Completed") => (Len(results) = Len(steps) /\ AllPass)
          /\ (state = "Aborted") => ~(Len(results) = Len(steps) /\ AllPass))
    /\ [][Terminal => UNCHANGED vars]_vars

\* C2 witness: a run that completed with exit code 0
C2_Witness == state = "Completed" /\ exitCode = 0 /\ Len(results) = 13

PublishSteps ==
    { "GitHub Token Validation", "Repository Check", "Purge Old Versions",
      "CDN Auto-Update Setup", "Git Operations", "CDN Verification" }

\* every step recorded before step_name passed
PriorPassed(step_name) ==
    \A k \in 1..Len(results) :
        results[k][1] = step_name => \A j \in 1..(k - 1) : results[j][2]

\* C3 as stated: whenever a publishing step has started, every step before it
\* passed and the seven core steps have run and passed.
C3_Original ==
    \A p \in PublishSteps :
        Invoked(p) => PriorPassed(p) /\ \A c \in CoreSteps : Passed(c)

\* C3 amended: that holds of every publishing step but the token validation,
\* which is the first step and runs before any core step.
C3_PublishAfterCore ==
    /\ \A p \in PublishSteps \ {"GitHub Token Validation"} :
        Invoked(p) => /\ PriorPassed(p)
                      /\ \A c \in CoreSteps : Passed(c)
                      /\ Passed("GitHub Token Validation")
    /\ \A c \in CoreSteps : Invoked(c) => Passed("GitHub Token Validation")
    /\ PriorPassed("GitHub Token Validation")

\* C3 witness: the repository check has started
C3_Witness ==
    /\ Invoked("Repository Check")
    /\ \A c \in CoreSteps : Passed(c)

\* C4 as stated: a run that has ended, completed or aborted, has printed the
\* summary: the number of steps run, the number that passed, and the list of
\* the steps run with their outcomes.
C4_SummaryAfterEveryRun ==
    Terminal =>
        /\ summary.printed
        /\ summary.total = Len(results)
        /\ summary.passed = Cardinality({k \in 1..Len(results) : results[k][2]})
        /\ summary.lines = results

\* the token artifact's text shows an expiration comparison, as the token
\* check looks for one: "exp" and "Date.now()" both occur in it
ExpirationEvidence ==
    /\ Contains(text[jwt_file], <<"exp">>)
    /\ Contains(text[jwt_file], <<"Date.now()">>)

\* the steps declared before the bundle creation
BeforeBundle ==
    {k \in 1..Len(steps) :
        \E b \in 1..Len(steps) : steps[b] = "CDN Bundle Creation" /\ k < b}

\* C8: nothing is written under dist/ unless every step declared before the
\* bundle creation has passed; with a token artifact that shows no
\* expiration comparison the bundle creation is never called, nothing is
\* written, the run does not complete, and once the token check has run the
\* run is Aborted at that step with exit code 1.
C8_NoBundleUnlessPriorPassed ==
    /\ (written # {} \/ bundle # NoBundle \/ Invoked("CDN Bundle Creation")) =>
            \A k \in BeforeBundle : k <= Len(results) /\ results[k][2]
    /\ ~ExpirationEvidence =>
        /\ ~Invoked("CDN Bundle Creation")
        /\ written = {}
        /\ bundle = NoBundle
        /\ state # "Completed"
        /\ Terminal => exitCode = 1
        /\ Invoked("JWT Security Test") =>
            /\ state = "Aborted"
            /\ exitCode = 1
            /\ results[Len(results)] = <<"JWT Security Test", FALSE>>

\* C8 witness: the token check ran on a text without expiration evidence and
\* returned False; the run is Aborted there and nothing was written
C8_Witness ==
    /\ ~ExpirationEvidence
    /\ ret = [func |-> "JWT Security Test", pending |-> FALSE, raised |-> FALSE,
              value |-> FALSE]
    /\ state = "Aborted"
    /\ exitCode = 1
    /\ Len(results) = 5
    /\ written = {}

\* the core steps in the order main declares them
CoreOrder == SelectSeq(steps, LAMBDA step_name : step_name \in CoreSteps)

\* what a core step comes to on the tree as it stands
CoreVerdict(step_name) ==
    LET r == step_func(step_name, "forward") IN ~r.raised /\ r.value

\* the core steps a run executes on the tree when nothing else stops it,
\* with their verdicts: the core steps up to the first that fails
ExpectedCore ==
    LET order == CoreOrder
        verdict == [k \in 1..Len(order) |-> CoreVerdict(order[k])]
        fails == {k \in 1..Len(order) : ~verdict[k]}
        last == IF fails = {} THEN Len(order)
                ELSE CHOOSE k \in fails : \A j \in fails : k <= j
    IN  [k \in 1..last |-> <<order[k], verdict[k]>>]

\* the core steps the run executed, with their verdicts
CoreResults == SelectSeq(results, LAMBDA entry : entry[1] \in CoreSteps)

\* C9 as stated: the core steps a run executes and their verdicts are those
\* the tree determines, whether or not the credential is set.
C9_Original == Terminal => CoreResults = ExpectedCore

\* C9 amended: they are those the tree determines in the runs where the token
\* validation passed; without the credential the token validation fails and
\* the run executes no core step at all.
C9_CoreAfterTokenOnly ==
    /\ token = NoToken => ~Passed("GitHub Token Validation")
    /\ Terminal =>
        CoreResults = IF Passed("GitHub Token Validation") THEN ExpectedCore
                      ELSE <<>>

\* C9 witness: a run without the credential ended with no core step
\* executed, on a tree where all seven core steps pass
C9_Witness ==
    /\ Terminal
    /\ token = NoToken
    /\ CoreResults = <<>>
    /\ Len(ExpectedCore) = 7
    /\ \A k \in 1..7 : ExpectedCore[k][2]

-----------------------------------------------------------------------------
(* Properties of the core step functions *)

\* the check was called and read its artifact's text
Ran(step_name) ==
    /\ ret = [func |-> step_name, pending |-> FALSE, raised |-> FALSE,
              value |-> ret.value]
    /\ ArtifactOf(step_name) \in exists

\* evidence in the query artifact's text
FilterEvidence == Contains(text[query_engine_file], <<"_filter">>)

OperatorEvidence ==
    \/ Contains(text[query_engine_file], <<"$eq">>)
    \/ Contains(text[query_engine_file], <<"operator">>)

DynamicEval == Contains(text[query_engine_file], <<"eval", "(">>)

\* C5 as stated: the injection-safety check passes iff the text shows
\* filtered-query evidence and operator-validation evidence and holds no
\* dynamic-evaluation call.
C5_Original ==
    Ran("SQL Injection Test") =>
        (ret.value <=> (FilterEvidence /\ OperatorEvidence /\ ~DynamicEval))

\* C5 amended: the check passes iff the text shows filtered-query evidence
\* and holds no dynamic-evaluation call; operator-validation evidence is
\* logged and does not gate; a dynamic-evaluation call fails the check.
C5_FilterAndNoEval ==
    Ran("SQL Injection Test") =>
        /\ ret.value <=> (FilterEvidence /\ ~DynamicEval)
        /\ DynamicEval => ~ret.value
        /\ report = << <<"Safe WHERE clause filtering", FilterEvidence>>,
                       <<"Query operator validation", OperatorEvidence>>,
                       <<"No eval() usage", ~DynamicEval>> >>

\* C5 witness: a text with filter evidence, no operator evidence and no
\* dynamic evaluation passed
C5_Witness ==
    /\ Ran("SQL Injection Test")
    /\ FilterEvidence /\ ~OperatorEvidence /\ ~DynamicEval
    /\ ret.value

\* the gating conjunction the specification states for each check
Gating(step_name, t) ==
    CASE step_name = "XSS Protection Test" ->
            /\ Contains(t, <<"function sanitize">>)
            /\ Contains(t, <<"&lt;">>) \/ Contains(t, <<"replace(/</g">>)
      [] step_name = "JWT Security Test" ->
            /\ Contains(t, <<"verifyJWT">>)
            /\ Contains(t, <<"signature">>) /\ Contains(t, <<"!", "=">>)
            /\ Contains(t, <<"exp">>) /\ Contains(t, <<"Date.now()">>)
      [] step_name = "CORS Configuration Test" ->
            Contains(Lower(t), <<"cors">>) \/ Contains(Lower(t), <<"origin">>)
      [] step_name = "Route Testing" ->
            /\ Contains(t, <<"define">>) /\ Contains(Lower(t), <<"route">>)
            /\ Contains(t, <<"try">>) /\ Contains(t, <<"catch">>)
            /\ Contains(t, <<"404">>) \/ Contains(Lower(t), <<"not found">>)

\* the lines that bear on informational sub-checks only
InfoLines(step_name) ==
    CASE step_name = "XSS Protection Test" ->
            { <<"SCRIPT">>, <<"export ", "function validate">> }
      [] step_name = "JWT Security Test" ->
            { <<"SECRET", " ", "=", " ", "'k3y'">>,
              <<"secret", "=", "process.env">> }
      [] step_name = "CORS Configuration Test" ->
            { <<"*">>, <<"Wildcard">> }
      [] step_name = "Route Testing" ->
            { <<"GET">>, <<"POST">>, <<"PUT">>, <<"DELETE">>, <<"PATCH">>,
              <<":">>, <<"params">>, <<"Middleware">> }

\* what the check returns on the tree as it stands with its artifact's text
\* replaced by t
VerdictOn(step_name, t) ==
    LET txt == [text EXCEPT ![ArtifactOf(step_name)] = t]
        r == CASE step_name = "XSS Protection Test" ->
                    test_xss_protection(exists, unreadable, txt)
               [] step_name = "JWT Security Test" ->
                    test_jwt_security(exists, unreadable, txt)
               [] step_name = "CORS Configuration Test" ->
                    test_cors_configuration(exists, unreadable, txt)
               [] step_name = "Route Testing" ->
                    test_routes(exists, unreadable, txt)
    IN  ~r.raised /\ r.value

GatedChecks ==
    { "XSS Protection Test", "JWT Security Test", "CORS Configuration Test",
      "Route Testing" }

\* C6: the verdict of the sanitization, token, cross-origin and routing
\* checks is the stated gating conjunction; adding or removing a line that
\* bears on informational sub-checks only leaves it unchanged; removing the
\* sanitize declaration from a text that passes the sanitization check makes
\* it fail.
C6_GatingConjunction ==
    \A c \in GatedChecks :
        Ran(c) =>
            LET t == text[ArtifactOf(c)]
            IN  /\ ret.value <=> Gating(c, t)
                /\ \A l \in InfoLines(c) :
                        VerdictOn(c, SymDiff(t, {l})) = ret.value
                /\ (c = "XSS Protection Test" /\ ret.value) =>
                        ~VerdictOn(c, {l \in t : ~In(<<"function sanitize">>, l)})

\* C6 witness: the sanitization check passed a text whose script-tag
\* sub-check failed
C6_Witness ==
    /\ Ran("XSS Protection Test")
    /\ ret.value
    /\ report[3] = <<"Script tag protection", FALSE>>

\* the files under the source root, the scripts among them, and the test
\* that a path holds an exclusion rule
SrcFiles == {p \in exists : p[1] = "src/"}

Scripts == {p \in SrcFiles : p[Len(p)] = ".js"}

MatchesRule(p) == \E k \in 1..Len(EXCLUDED_FROM_CDN) : In(EXCLUDED_FROM_CDN[k], p)

BundleRan ==
    ret = [func |-> "CDN Bundle Creation", pending |-> FALSE, raised |-> FALSE,
           value |-> TRUE]

\* the files of F copied to the same relative path under dist/
CopiedOf(F) == {p \in F : dist_dir \o Tail(p) \in Range(bundle.cdn_files)}

ExcludedOf(F) == {p \in F : p \in Range(bundle.excluded)}

\* the bundle partitions the files of F: those that hold no rule are
\* copied, the others excluded, and it counts them so
Partitions(F) ==
    LET N == Cardinality(F)
        K == Cardinality({p \in F : MatchesRule(p)})
    IN  /\ Len(bundle.cdn_files) = N - K
        /\ Cardinality(CopiedOf(F)) = N - K
        /\ bundle.excluded_count = K
        /\ Cardinality(ExcludedOf(F)) = K
        /\ CopiedOf(F) \cap ExcludedOf(F) = {}
        /\ CopiedOf(F) \cup ExcludedOf(F) = F
        /\ \A p \in F : MatchesRule(p) <=> p \in ExcludedOf(F)

\* C7 as stated: the bundle assembly partitions every file under src/.
C7_Original == BundleRan => Partitions(SrcFiles)

\* C7 amended: when it returns, the bundle assembly has partitioned the
\* files under src/ whose name ends in .js; the copies are in dist/; a file
\* of another name is neither copied nor excluded.
C7_PartitionsScripts ==
    BundleRan =>
        /\ Partitions(Scripts)
        /\ Range(bundle.cdn_files) \subseteq dist
        /\ Range(bundle.cdn_files) \subseteq written
        /\ CopiedOf(SrcFiles \ Scripts) = {}
        /\ ExcludedOf(SrcFiles \ Scripts) = {}

\* C7 witness: the bundle was assembled from a tree that holds a file that
\* is no script and a script whose path holds a rule without being one
C7_Witness ==
    /\ BundleRan
    /\ <<"src/", "README", ".md">> \in exists
    /\ <<"src/", "vendor/", "src/", "plugins/", "react", ".js">> \in exists
    /\ bundle.excluded_count = 3

InventoryRan == ret.func = "Source File Validation" /\ ~ret.pending

\* the place of a path in the manifest
Place(p) == CHOOSE k \in 1..Len(required_files) : required_files[k] = p

\* C10: the inventory check passes iff every manifest path exists; when it
\* fails it lists exactly the manifest paths that do not exist, each once,
\* in manifest order; and it creates, modifies and deletes no file.
C10_Inventory ==
    /\ [](InventoryRan =>
            /\ ~ret.raised
            /\ ret.value <=> (Manifest \subseteq exists)
            /\ Range(report) = Manifest \ exists
            /\ \A a \in 1..Len(report) : \A b \in 1..Len(report) :
                    a < b => Place(report[a]) < Place(report[b])
            /\ written = {})
    /\ [][ret.func = "Source File Validation" =>
            UNCHANGED <<exists, unreadable, text, dist, written, size>>]_vars

\* C10 witness: the check failed on a tree that lacks two manifest paths and
\* listed both
C10_Witness ==
    /\ InventoryRan
    /\ ~ret.value
    /\ Len(report) = 2
    /\ Cardinality(Manifest \ exists) = 2

\* the scripts under src/ whose path holds no exclusion rule, and the path
\* each is copied to
Bundled == {p \in Scripts : ~MatchesRule(p)}

CopyOf(p) == dist_dir \o Tail(p)

\* the sum of the byte sizes of the files of F
RECURSIVE TotalBytes(_)
TotalBytes(F) ==
    IF F = {} THEN 0
    ELSE LET p == CHOOSE q \in F : TRUE
         IN  size[p].bytes + TotalBytes(F \ {p})

BundleStep == CHOOSE k \in 1..Len(steps) : steps[k] = "CDN Bundle Creation"

\* C11: exceeding the size budget is a non-fatal annotation.  When the bundle
\* assembly has read every script it copies, it returns; it has then copied
\* exactly the scripts that hold no exclusion rule, each once; total_size is
\* the sum of the byte sizes of these copies as written under dist/ in this
\* run (each as long as its source less one byte for every CR LF pair of the
\* source), with no file of an earlier build and no excluded file counted;
\* the warning is logged exactly when total_size > 102400; and the step is
\* recorded as a pass in both cases, so the run is never Aborted there.
C11_BudgetIsAnnotation ==
    /\ (Invoked("CDN Bundle Creation") /\ Bundled \cap unreadable = {}) =>
            bundle # NoBundle
    /\ bundle # NoBundle =>
        /\ Len(bundle.cdn_files) = Cardinality(Bundled)
        /\ Range(bundle.cdn_files) = {CopyOf(p) : p \in Bundled}
        /\ Range(bundle.cdn_files) \subseteq written
        /\ \A p \in Bundled :
                size[CopyOf(p)] = [bytes |-> size[p].bytes - size[p].crlf, crlf |-> 0]
        /\ bundle.total_size = TotalBytes({CopyOf(p) : p \in Bundled})
        /\ bundle.warned <=> bundle.total_size > 102400
        /\ Len(results) >= BundleStep
        /\ results[BundleStep] = <<"CDN Bundle Creation", TRUE>>
        /\ ~(state = "Aborted" /\ i = BundleStep)

\* C11 witness: a run whose bundle is one byte over the target, built from a
\* tree with a longer index.js and a script saved with CR LF line ends, has
\* logged the warning and gone on to complete
C11_Witness ==
    /\ state = "Completed"
    /\ bundle # NoBundle
    /\ bundle.warned
    /\ bundle.total_size = 102401
    /\ size[<<"src/", "core/", "FrontendRAFT", ".js">>].crlf = 2
    /\ TotalBytes(Bundled) = 102403

====
